---- MODULE Spec2Model ----
(***************************************************************************)
(* Model of the Salesforce automation scripts:                             *)
(*   new_fields.py   - SalesforceFieldManager and create_healthcare_fields *)
(*   new_accounts.py - add_account, add_accounts_from_dataframe, main      *)
(* The CRM tenant is the environment: the set of custom fields of Account  *)
(* and the Account records.  Every call to the CRM draws its outcome       *)
(* (answer, structured failure, exception) from the outcomes the client    *)
(* library can deliver.                                                    *)
(***************************************************************************)
EXTENDS Integers, Sequences, FiniteSets, TLC

VARIABLES
    fields,        \* CRM tenant: custom field API names present on Account
    accounts,      \* CRM tenant: Account records [Id, Name, CCN]
    ppc,           \* create_healthcare_fields: "idle", "running", "done", "raised"
    idx,           \* create_healthcare_fields: number of fields processed so far
    results,       \* create_healthcare_fields: the dict of lines 354-358
    calls,         \* metadata-plane calls and sleeps of the current run, in order
    runs,          \* completed runs of create_healthcare_fields
    startFields,   \* tenant fields when the current run began
    todo,          \* create_healthcare_fields: the list the loop of line 540 walks
    carry,         \* fields the last interrupted run had created on the tenant
    script,        \* the script being run: "new_fields" or "new_accounts"
    exit_code,     \* exit status of the script's process, NoExit while it runs
    ret,           \* outcome of the last direct add_account call
    prevRet,       \* outcome of the direct add_account call before it
    acalls,        \* data-plane calls of the current loader run / last add_account
    lpc,           \* add_accounts_from_dataframe: "idle", "running", "done", "raised"
    df,            \* add_accounts_from_dataframe: the frame being imported
    li,            \* add_accounts_from_dataframe: rows processed so far
    lresults,      \* add_accounts_from_dataframe: the results list
    lruns,         \* completed runs of add_accounts_from_dataframe
    lprev,         \* [df, results] of the previous loader run
    lstart,        \* Account records when the current loader run began
    caller,        \* who called add_accounts_from_dataframe: "main" or "direct"
    calledAccounts,\* direct add_account calls made so far
    mainpc,        \* new_accounts.main: "idle" or the exception it ended with
    csv,           \* new_accounts.main: the upstream CSV rows
    bpc,           \* create_accounts_batch: "idle", "creating", "returned", "returned_None"
    batch,         \* create_accounts_batch: the frame it was called with
    bi,            \* create_accounts_batch: rows walked so far
    bresults,      \* create_accounts_batch: the results list
    existing,      \* create_accounts_batch: the records the query of line 63 answered
    bstart,        \* Account records when the current batch call began
    bruns          \* calls of create_accounts_batch that have returned

vars == <<fields, accounts, ppc, idx, results, calls, runs, startFields, todo, carry,
          script, exit_code,
          ret, prevRet, acalls, lpc, df, li, lresults, lruns, lprev, lstart, caller,
          calledAccounts, mainpc, csv,
          bpc, batch, bi, bresults, existing, bstart, bruns>>

fieldVars == <<ppc, idx, results, calls, runs, startFields, todo, carry>>
accountVars == <<ret, prevRet, acalls, lpc, df, li, lresults, lruns, lprev, lstart, caller,
          calledAccounts, mainpc, csv>>
batchVars == <<bpc, batch, bi, bresults, existing, bstart, bruns>>

(***************************************************************************)
(* Bounds                                                                  *)
(***************************************************************************)
NumFields == 3      \* the first NumFields entries of fields_to_create are run
MaxRuns == 2        \* runs of create_healthcare_fields in one behaviour
MaxCalls == 3       \* direct calls of add_account in one behaviour
MaxRows == 2        \* rows of a frame handed to add_accounts_from_dataframe
MaxBatches == 2     \* calls of create_accounts_batch
MaxLoads == 2       \* runs of add_accounts_from_dataframe in one behaviour

(***************************************************************************)
(* new_fields.py                                                           *)
(***************************************************************************)

\* fields_to_create (lines 363-535): <<field_type, field_name>> in declaration order.
AllFields ==
    << <<"text", "CCN__c">>,
       <<"text", "Legal_Business_Name__c">>,
       <<"text", "SSA_County_Code__c">>,
       <<"text", "County__c">>,
       <<"text", "Chain_Name__c">>,
       <<"text", "Chain_ID__c">>,
       <<"text", "Special_Focus_Status__c">>,
       <<"number", "Certified_Beds__c">>,
       <<"number", "Avg_Residents_Per_Day__c">>,
       <<"number", "Facilities_In_Chain__c">>,
       <<"number", "Overall_Rating__c">>,
       <<"number", "Health_Inspection_Rating__c">>,
       <<"number", "QM_Rating__c">>,
       <<"number", "Staffing_Rating__c">>,
       <<"number", "Latitude__c">>,
       <<"number", "Longitude__c">>,
       <<"checkbox", "Ownership_Changed_12Mo__c">>,
       <<"checkbox", "Resides_In_Hospital__c">>,
       <<"checkbox", "CCRC__c">>,
       <<"checkbox", "Has_Resident_Family_Council__c">>,
       <<"checkbox", "Has_Sprinkler_Systems__c">>,
       <<"date", "Medicare_Medicaid_Approval_Date__c">> >>

\* The list the loop of line 540 walks, cut to the model's bound.
fields_to_create ==
    SubSeq(AllFields, 1, IF NumFields < Len(AllFields) THEN NumFields ELSE Len(AllFields))

\* Line 537.
total_fields == Len(todo)

FieldNames == {fields_to_create[i][2] : i \in 1..Len(fields_to_create)}

\* Outcomes of obj.describe(): it answers with the object's fields, or raises.
DescribeOutcomes == {"ok", "raises"}

\* Outcomes of metadata_api.create_metadata('CustomField', [field_metadata]).
CreateOutcomes == {"success", "failure", "empty_errors", "no_response", "raises"}

\* What create_metadata hands back for each outcome (a list of result dicts).
CreateResponse(c) ==
    CASE c = "success"      -> << [success |-> TRUE] >>
      [] c = "failure"      -> << [success |-> FALSE,
                                   errors |-> << [message |-> "DUPLICATE_OR_INVALID"] >>] >>
      [] c = "empty_errors" -> << [success |-> FALSE, errors |-> << >>] >>
      [] OTHER              -> << >>

\* The tenant after create_metadata: only a successful create adds the field.
TenantAfterCreate(tenant, field_name, c) ==
    IF c = "success" THEN tenant \cup {field_name} ELSE tenant

\* The tenant refuses to create a custom field it already has.
CreatePossible(tenant, field_name, c) ==
    c = "success" => field_name \notin tenant

\* What obj.describe() delivered about field_name: the exception, or whether
\* the name is among metadata['fields'].
DescribeAnswer(tenant, field_name, d) ==
    IF d = "raises" THEN "raises"
    ELSE IF field_name \in tenant THEN "present" ELSE "absent"

\* check_field_exists with the membership test made on the list of field dicts
\* instead of on their names: it never finds the name.
check_field_exists_dicts(tenant, field_name, d) == FALSE

\* check_field_exists with the except clause answering True.
check_field_exists_except_true(tenant, field_name, d) ==
    IF d = "raises" THEN TRUE ELSE field_name \in tenant

\* check_field_exists (lines 32-52): membership in the described fields; an
\* exception of describe() is swallowed and answers False.
check_field_exists(tenant, field_name, d) ==
    IF d = "raises" THEN FALSE ELSE field_name \in tenant

\* Line 87: result[0].get('errors', [{}])[0].get('message', 'Unknown error')
\* if result else 'No response'.  An empty errors list makes [0] raise IndexError.
error_msg(result) ==
    IF result = << >> THEN [raised |-> FALSE, msg |-> "No response"]
    ELSE LET errs == IF "errors" \in DOMAIN result[1] THEN result[1].errors
                     ELSE << [dflt |-> TRUE] >>
         IN  IF errs = << >> THEN [raised |-> TRUE, msg |-> "list index out of range"]
             ELSE IF "message" \in DOMAIN errs[1]
                  THEN [raised |-> FALSE, msg |-> errs[1].message]
                  ELSE [raised |-> FALSE, msg |-> "Unknown error"]

\* Lines 91-93: the except clause answers a failure dict carrying str(e).
caught(field_name, msg) ==
    [raised |-> FALSE,
     result |-> [success |-> FALSE, field |-> field_name, error |-> msg]]

\* submit_create with line 87 moved out of the try: its IndexError escapes.
submit_create_uncaught(field_name, c) ==
    IF c = "raises"
    THEN caught(field_name, "exception")
    ELSE LET result == CreateResponse(c)
         IN  IF result # << >> /\ result[1].success
             THEN [raised |-> FALSE,
                   result |-> [success |-> TRUE, field |-> field_name]]
             ELSE LET e == error_msg(result)
                  IN  [raised |-> e.raised,
                       result |-> [success |-> FALSE, field |-> field_name,
                                   error |-> e.msg]]

\* Lines 80-93 (and the same block in every create_*_field): the try around
\* create_metadata.  An exception of create_metadata and the IndexError of
\* line 87 are both raised inside the try and both caught at line 91.
submit_create(field_name, c) ==
    IF c = "raises"
    THEN caught(field_name, "exception")
    ELSE LET result == CreateResponse(c)
         IN  IF result # << >> /\ result[1].success
             THEN [raised |-> FALSE,
                   result |-> [success |-> TRUE, field |-> field_name]]
             ELSE LET e == error_msg(result)
                  IN  IF e.raised
                      THEN caught(field_name, e.msg)
                      ELSE [raised |-> FALSE,
                            result |-> [success |-> FALSE, field |-> field_name,
                                        error |-> e.msg]]

\* create_field with the early return of the existence check lost: the create
\* is submitted whatever the check answered.
create_field_no_return(tenant, field_name, d, c) ==
    LET s == submit_create(field_name, c)
    IN  [raised |-> s.raised,
         result |-> s.result,
         calls  |-> << [op |-> "describe", field |-> field_name,
                        out |-> DescribeAnswer(tenant, field_name, d)],
                       [op |-> "create_metadata", field |-> field_name, out |-> c] >>,
         tenant |-> TenantAfterCreate(tenant, field_name, c)]

\* create_field with a failed create_metadata submitted a second time.
create_field_retry(tenant, field_name, d, c) ==
    LET described == [op |-> "describe", field |-> field_name,
                      out |-> DescribeAnswer(tenant, field_name, d)]
        submitted == [op |-> "create_metadata", field |-> field_name, out |-> c]
    IN  IF check_field_exists(tenant, field_name, d)
        THEN [raised |-> FALSE,
              result |-> [success |-> FALSE, message |-> "Field already exists"],
              calls  |-> << described >>,
              tenant |-> tenant]
        ELSE LET s == submit_create(field_name, c)
             IN  [raised |-> s.raised,
                  result |-> s.result,
                  calls  |-> IF c = "success"
                             THEN << described, submitted >>
                             ELSE << described, submitted, submitted >>,
                  tenant |-> TenantAfterCreate(tenant, field_name, c)]

\* create_field with the create submitted before the existence check is made.
create_field_create_first(tenant, field_name, d, c) ==
    LET described == [op |-> "describe", field |-> field_name,
                      out |-> DescribeAnswer(tenant, field_name, d)]
        s == submit_create(field_name, c)
    IN  [raised |-> s.raised,
         result |-> IF check_field_exists(tenant, field_name, d)
                    THEN [success |-> FALSE, message |-> "Field already exists"]
                    ELSE s.result,
         calls  |-> << [op |-> "create_metadata", field |-> field_name, out |-> c],
                       described >>,
         tenant |-> TenantAfterCreate(tenant, field_name, c)]

\* The common body of create_text_field, create_number_field, ... : the
\* existence check, then the create.  Answers the returned dict (or that an
\* exception left the method), the calls made on the metadata plane and the
\* tenant afterwards.
create_field(tenant, field_name, d, c) ==
    LET described == [op |-> "describe", field |-> field_name,
                      out |-> DescribeAnswer(tenant, field_name, d)]
    IN  IF check_field_exists(tenant, field_name, d)
        THEN [raised |-> FALSE,
              result |-> [success |-> FALSE, message |-> "Field already exists"],
              calls  |-> << described >>,
              tenant |-> tenant]
        ELSE LET s == submit_create(field_name, c)
             IN  [raised |-> s.raised,
                  result |-> s.result,
                  calls  |-> << described,
                                [op |-> "create_metadata", field |-> field_name, out |-> c] >>,
                  tenant |-> TenantAfterCreate(tenant, field_name, c)]

create_text_field(tenant, field_name, d, c) == create_field(tenant, field_name, d, c)
create_number_field(tenant, field_name, d, c) == create_field(tenant, field_name, d, c)
create_checkbox_field(tenant, field_name, d, c) == create_field(tenant, field_name, d, c)
create_date_field(tenant, field_name, d, c) == create_field(tenant, field_name, d, c)
create_picklist_field(tenant, field_name, d, c) == create_field(tenant, field_name, d, c)
create_currency_field(tenant, field_name, d, c) == create_field(tenant, field_name, d, c)
create_geolocation_field(tenant, field_name, d, c) == create_field(tenant, field_name, d, c)

\* The type tags that lines 543-555 dispatch on.
DispatchedTypes == {"text", "number", "checkbox", "date", "picklist", "currency"}

\* dispatch without the else of lines 556-557: an unknown tag is handled as text.
dispatch_unknown_as_text(tenant, field_type, field_name, d, c) ==
    IF field_type \in DispatchedTypes
    THEN create_field(tenant, field_name, d, c)
    ELSE create_text_field(tenant, field_name, d, c)

\* Lines 543-557: the dispatch on the type tag.
dispatch(tenant, field_type, field_name, d, c) ==
    CASE field_type = "text"     -> create_text_field(tenant, field_name, d, c)
      [] field_type = "number"   -> create_number_field(tenant, field_name, d, c)
      [] field_type = "checkbox" -> create_checkbox_field(tenant, field_name, d, c)
      [] field_type = "date"     -> create_date_field(tenant, field_name, d, c)
      [] field_type = "picklist" -> create_picklist_field(tenant, field_name, d, c)
      [] field_type = "currency" -> create_currency_field(tenant, field_name, d, c)
      [] OTHER -> [raised |-> FALSE,
                   result |-> [success |-> FALSE, error |-> "Unknown field type"],
                   calls  |-> << >>,
                   tenant |-> tenant]

\* track with the elif of line 562 written as if: a created field falls through
\* to the else branch and is appended to failed as well.
track_if_for_elif(res, result, field_name) ==
    LET first == IF "success" \in DOMAIN result /\ result.success
                 THEN [res EXCEPT !.created = Append(@, field_name)]
                 ELSE res
    IN  IF "message" \in DOMAIN result /\ result.message = "Field already exists"
        THEN [first EXCEPT !.skipped = Append(@, field_name)]
        ELSE [first EXCEPT !.failed =
                 Append(@, [field |-> field_name,
                            error |-> IF "error" \in DOMAIN result
                                      THEN result.error ELSE "Unknown error"])]

\* track with insert(0, ...) for append: the lists are built newest first.
track_prepend(res, result, field_name) ==
    IF "success" \in DOMAIN result /\ result.success
    THEN [res EXCEPT !.created = <<field_name>> \o @]
    ELSE IF "message" \in DOMAIN result /\ result.message = "Field already exists"
         THEN [res EXCEPT !.skipped = <<field_name>> \o @]
         ELSE [res EXCEPT !.failed =
                  << [field |-> field_name,
                      error |-> IF "error" \in DOMAIN result
                                THEN result.error ELSE "Unknown error"] >> \o @]

\* track with the 'Field already exists' test of line 562 dropped: an existing
\* field falls to the else branch and is appended to failed.
track_exists_is_failed(res, result, field_name) ==
    IF "success" \in DOMAIN result /\ result.success
    THEN [res EXCEPT !.created = Append(@, field_name)]
    ELSE [res EXCEPT !.failed =
             Append(@, [field |-> field_name,
                        error |-> IF "error" \in DOMAIN result
                                  THEN result.error ELSE "Unknown error"])]

\* Lines 559-568: exactly one of the three lists gets the field.
track(res, result, field_name) ==
    IF "success" \in DOMAIN result /\ result.success
    THEN [res EXCEPT !.created = Append(@, field_name)]
    ELSE IF "message" \in DOMAIN result /\ result.message = "Field already exists"
         THEN [res EXCEPT !.skipped = Append(@, field_name)]
         ELSE [res EXCEPT !.failed =
                  Append(@, [field |-> field_name,
                             error |-> IF "error" \in DOMAIN result
                                       THEN result.error ELSE "Unknown error"])]

\* pacing without the test of line 571: a sleep follows the last field too.
pacing_after_every_field(i, field_name) ==
    << [op |-> "sleep", field |-> field_name, out |-> "delay"] >>

\* Lines 570-572: the pacing sleep, after every field but the last.
pacing(i, field_name) ==
    IF i < total_fields
    THEN << [op |-> "sleep", field |-> field_name, out |-> "delay"] >>
    ELSE << >>

\* The process of the script has not ended.
NoExit == -1

EmptyResults == [created |-> << >>, failed |-> << >>, skipped |-> << >>]

\* create_healthcare_fields is called (lines 340-358).
create_healthcare_fields_begin ==
    /\ ppc \in {"idle", "done", "interrupted"}
    /\ runs < MaxRuns
    /\ ppc' = "running"
    /\ idx' = 0
    /\ results' = EmptyResults
    /\ calls' = << >>
    /\ startFields' = fields
    /\ carry' = IF ppc = "interrupted" THEN carry ELSE {}
    /\ UNCHANGED <<fields, accounts, runs, todo>>
    /\ UNCHANGED <<accountVars, batchVars, script, exit_code>>

\* One iteration of the loop of lines 540-572.
create_healthcare_fields_loop ==
    /\ ppc = "running"
    /\ idx < total_fields
    /\ \E d \in DescribeOutcomes, c \in CreateOutcomes :
         LET field_type == todo[idx + 1][1]
             field_name == todo[idx + 1][2]
             r == dispatch(fields, field_type, field_name, d, c)
         IN  /\ CreatePossible(fields, field_name, c)
             /\ fields' = r.tenant
             /\ IF r.raised
                THEN /\ ppc' = "raised"
                     /\ calls' = calls \o r.calls
                     /\ UNCHANGED <<results, idx>>
                ELSE /\ ppc' = ppc
                     /\ results' = track(results, r.result, field_name)
                     /\ calls' = calls \o r.calls \o pacing(idx + 1, field_name)
                     /\ idx' = idx + 1
    /\ UNCHANGED <<accounts, runs, startFields, todo, carry>>
    /\ UNCHANGED <<accountVars, batchVars, script, exit_code>>

\* Lines 574-599: the summary is printed and results returned.
create_healthcare_fields_return ==
    /\ ppc = "running"
    /\ idx = total_fields
    /\ ppc' = "done"
    /\ runs' = runs + 1
    /\ UNCHANGED <<fields, accounts, idx, results, calls, startFields, todo, carry>>
    /\ UNCHANGED <<accountVars, batchVars, script, exit_code>>

\* The fields a create_metadata in flight may commit when the process is
\* interrupted: none, or the field of the entry the loop is at, if absent.
InFlight ==
    {{}} \cup (IF idx < total_fields /\ todo[idx + 1][1] \in DispatchedTypes
                  /\ todo[idx + 1][2] \notin fields
               THEN {{todo[idx + 1][2]}} ELSE {})

\* The interrupt with a cleanup handler that deletes what the run created.
create_healthcare_fields_interrupt_rollback ==
    /\ ppc = "running"
    /\ ppc' = "interrupted"
    /\ runs' = runs + 1
    /\ \E committed \in InFlight :
         /\ fields' = startFields
         /\ carry' = (fields \cup committed) \ startFields
    /\ UNCHANGED <<accounts, idx, results, calls, startFields, todo>>
    /\ UNCHANGED <<accountVars, batchVars, script, exit_code>>

\* The process is interrupted (KeyboardInterrupt, kill) inside the loop of lines
\* 540-572: no handler catches it (lines 91 and 629 catch Exception only) and
\* nothing is undone; a create_metadata in flight may have been committed.
create_healthcare_fields_interrupt ==
    /\ ppc = "running"
    /\ ppc' = "interrupted"
    /\ runs' = runs + 1
    /\ \E committed \in InFlight :
         /\ fields' = fields \cup committed
         /\ carry' = (fields \cup committed) \ startFields
    /\ UNCHANGED <<accounts, idx, results, calls, startFields, todo>>
    /\ UNCHANGED <<accountVars, batchVars, script, exit_code>>

\* new_fields.main returns the results (lines 622-625) and the __main__ block
\* prints them (lines 634-639); the interpreter then ends with status 0, as no
\* line of the script calls sys.exit.
new_fields_main_return ==
    /\ ppc = "done"
    /\ exit_code = NoExit
    /\ ppc' = "exited"
    /\ exit_code' = 0
    /\ UNCHANGED <<fields, accounts, idx, results, calls, runs, startFields, todo, carry>>
    /\ UNCHANGED <<accountVars, batchVars, script>>

\* Salesforce(...) raises in new_fields.main (lines 614-618): the except of
\* line 628 returns None, the __main__ block prints the failure (lines 640-641)
\* and the interpreter ends with status 0.
new_fields_main_error ==
    /\ ppc = "idle"
    /\ runs = 0
    /\ exit_code = NoExit
    /\ ppc' = "exited"
    /\ exit_code' = 0
    /\ UNCHANGED <<fields, accounts, idx, results, calls, runs, startFields, todo, carry>>
    /\ UNCHANGED <<accountVars, batchVars, script>>

(***************************************************************************)
(* new_accounts.py                                                         *)
(***************************************************************************)

\* A Python dict is a function from its keys; this is {}.
EmptyDict == [k \in {} |-> ""]

\* Account columns every tenant has, as far as the scripts name them.
StandardColumns ==
    {"Id", "Name", "BillingStreet", "BillingCity", "BillingState",
     "BillingPostalCode", "Phone", "Type", "Industry"}

\* The columns of Account on a tenant holding the custom fields `tenant`.
Columns(tenant) == StandardColumns \cup tenant

\* Line 40: the column the existence query filters on.
QueryField == "CCN_c"

\* Outcomes the transport adds to a data-plane call: it goes through, or raises.
TransportOutcomes == {"ok", "raises"}

\* sf.query("SELECT Id FROM Account WHERE <field> = '<value>' LIMIT 1"): raises
\* on a transport failure and on a column Account does not have; otherwise
\* answers at most one of the matching records.
query(accts, tenant, field, value, q) ==
    IF q = "raises" \/ field \notin Columns(tenant)
    THEN [raised |-> TRUE, totalSize |-> 0, records |-> << >>]
    ELSE LET matching == {a \in accts : field \in DOMAIN a /\ a[field] = value}
         IN  IF matching = {}
             THEN [raised |-> FALSE, totalSize |-> 0, records |-> << >>]
             ELSE [raised |-> FALSE, totalSize |-> 1,
                   records |-> << CHOOSE a \in matching :
                                     \A b \in matching : a.Id <= b.Id >>]

\* The Id the tenant gives the next Account.
NewId(accts) == Cardinality(accts) + 1

\* sf.Account.create(account_data): the record the tenant stores.
AccountRecord(accts, account_data) ==
    [Id |-> NewId(accts), Name |-> account_data["Name"], CCN__c |-> account_data["CCN__c"]]

\* The tenant creates a record only when every key of it is a column of Account.
AccountCreatePossible(tenant, account_data, c) ==
    c = "ok" => DOMAIN account_data \subseteq Columns(tenant)

\* Lines 55-57: the except clause answers an error dict.
add_account_error(accts, log, msg) ==
    [raised |-> FALSE, exc |-> "",
     value |-> [success |-> FALSE, error |-> msg],
     accounts |-> accts, calls |-> log]

\* add_account with one retry of a failing query before giving up.
add_account_retry_query(accts, tenant, account_data, q, c) ==
    IF "Name" \notin DOMAIN account_data
    THEN [raised |-> TRUE, exc |-> "'Name'", value |-> EmptyDict,
          accounts |-> accts, calls |-> << >>]
    ELSE IF "CCN__c" \notin DOMAIN account_data
    THEN [raised |-> TRUE, exc |-> "'CCN__c'", value |-> EmptyDict,
          accounts |-> accts, calls |-> << >>]
    ELSE LET account_ccn == account_data["CCN__c"]
             result == query(accts, tenant, QueryField, account_ccn, q)
             queried == [op |-> "query", field |-> QueryField, value |-> account_ccn,
                         out |-> IF result.raised THEN "raises"
                                 ELSE IF result.totalSize > 0 THEN "found" ELSE "empty"]
             created == [op |-> "create", field |-> "CCN__c", value |-> account_ccn,
                         out |-> c]
         IN  IF result.raised
             THEN add_account_error(accts, << queried, queried >>, "query failed")
             ELSE IF result.totalSize > 0
             THEN [raised |-> FALSE, exc |-> "",
                   value |-> [success |-> FALSE, message |-> "Duplicate",
                              id |-> result.records[1].Id],
                   accounts |-> accts, calls |-> << queried >>]
             ELSE IF c = "raises"
                  THEN add_account_error(accts, << queried, created >>, "create failed")
                  ELSE [raised |-> FALSE, exc |-> "",
                        value |-> [success |-> TRUE, id |-> NewId(accts), created |-> TRUE],
                        accounts |-> accts \cup {AccountRecord(accts, account_data)},
                        calls |-> << queried, created >>]

\* add_account with the existence check made tolerant of a failing query, as
\* check_field_exists is: the record is taken to be absent and created.
add_account_query_failure_is_absent(accts, tenant, account_data, q, c) ==
    IF "Name" \notin DOMAIN account_data
    THEN [raised |-> TRUE, exc |-> "'Name'", value |-> EmptyDict,
          accounts |-> accts, calls |-> << >>]
    ELSE IF "CCN__c" \notin DOMAIN account_data
    THEN [raised |-> TRUE, exc |-> "'CCN__c'", value |-> EmptyDict,
          accounts |-> accts, calls |-> << >>]
    ELSE LET account_ccn == account_data["CCN__c"]
             result == query(accts, tenant, QueryField, account_ccn, q)
             queried == [op |-> "query", field |-> QueryField, value |-> account_ccn,
                         out |-> IF result.raised THEN "raises"
                                 ELSE IF result.totalSize > 0 THEN "found" ELSE "empty"]
             created == [op |-> "create", field |-> "CCN__c", value |-> account_ccn,
                         out |-> c]
         IN  IF ~result.raised /\ result.totalSize > 0
             THEN [raised |-> FALSE, exc |-> "",
                   value |-> [success |-> FALSE, message |-> "Duplicate",
                              id |-> result.records[1].Id],
                   accounts |-> accts, calls |-> << queried >>]
             ELSE IF c = "raises"
                  THEN add_account_error(accts, << queried, created >>, "create failed")
                  ELSE [raised |-> FALSE, exc |-> "",
                        value |-> [success |-> TRUE, id |-> NewId(accts), created |-> TRUE],
                        accounts |-> accts \cup {AccountRecord(accts, account_data)},
                        calls |-> << queried, created >>]

\* add_account (lines 32-57).  Line 36 reads both keys before the try, so a
\* missing key raises KeyError to the caller; the query and the create are
\* inside the try, and any exception of theirs becomes an error dict.
add_account(accts, tenant, account_data, q, c) ==
    IF "Name" \notin DOMAIN account_data
    THEN [raised |-> TRUE, exc |-> "'Name'", value |-> EmptyDict,
          accounts |-> accts, calls |-> << >>]
    ELSE IF "CCN__c" \notin DOMAIN account_data
    THEN [raised |-> TRUE, exc |-> "'CCN__c'", value |-> EmptyDict,
          accounts |-> accts, calls |-> << >>]
    ELSE LET account_ccn == account_data["CCN__c"]
             result == query(accts, tenant, QueryField, account_ccn, q)
             queried == [op |-> "query", field |-> QueryField, value |-> account_ccn,
                         out |-> IF result.raised THEN "raises"
                                 ELSE IF result.totalSize > 0 THEN "found" ELSE "empty"]
             created == [op |-> "create", field |-> "CCN__c", value |-> account_ccn,
                         out |-> c]
         IN  IF result.raised
             THEN add_account_error(accts, << queried >>, "query failed")
             ELSE IF result.totalSize > 0
             THEN [raised |-> FALSE, exc |-> "",
                   value |-> [success |-> FALSE, message |-> "Duplicate",
                              id |-> result.records[1].Id],
                   accounts |-> accts, calls |-> << queried >>]
             ELSE IF c = "raises"
                  THEN add_account_error(accts, << queried, created >>, "create failed")
                  ELSE [raised |-> FALSE, exc |-> "",
                        value |-> [success |-> TRUE, id |-> NewId(accts), created |-> TRUE],
                        accounts |-> accts \cup {AccountRecord(accts, account_data)},
                        calls |-> << queried, created >>]

\* Payloads a caller hands to add_account.
PayloadNames == {"Burns Nursing Home", "Desert Care"}
PayloadCCNs == {"015009", "035001"}
Payloads ==
    {[Name |-> n, CCN__c |-> k] : n \in PayloadNames, k \in PayloadCCNs}
        \cup {EmptyDict, [Name |-> "Burns Nursing Home"]}

\* A caller invokes add_account(sf, account_data).
add_account_call ==
    /\ calledAccounts < MaxCalls
    /\ \E account_data \in Payloads, q \in TransportOutcomes, c \in TransportOutcomes :
         LET r == add_account(accounts, fields, account_data, q, c)
         IN  /\ AccountCreatePossible(fields, account_data, c)
             /\ accounts' = r.accounts
             /\ acalls' = r.calls
             /\ prevRet' = ret
             /\ ret' = [kind |-> IF r.raised THEN "raised" ELSE "returned",
                        exc |-> r.exc, value |-> r.value,
                        payload |-> account_data, q |-> q, c |-> c,
                        before |-> accounts]
    /\ calledAccounts' = calledAccounts + 1
    /\ UNCHANGED <<fields, lpc, df, li, lresults, lruns, lprev, lstart, caller, mainpc, csv>>
    /\ UNCHANGED <<fieldVars, batchVars, script, exit_code>>

\* Line 125: the states whose facilities are imported.
Jurisdiction == {"AZ", "NV", "UT", "CO"}

CCNColumn == "CMS Certification Number (CCN)"

\* Rows of the upstream CSV, over three of its columns.
CsvRow(name, state, ccn) ==
    ("Provider Name" :> name) @@ ("State" :> state) @@ (CCNColumn :> ccn)

BurnsAL == CsvRow("Burns Nursing Home", "AL", "015009")
DesertAZ == CsvRow("Desert Care", "AZ", "035001")
VegasNV == CsvRow("Vegas Care", "NV", "295001")

\* Upstream files main may be given by read_csv (line 124).
CsvFiles ==
    { << BurnsAL, DesertAZ >>,
      << DesertAZ, BurnsAL, VegasNV >>,
      << DesertAZ, VegasNV >> }

\* Lines 126-135: the reserved columns and their built-in Account fields.
ReservedMap ==
    ("Provider Name" :> "Name") @@ ("Provider Address" :> "BillingStreet")
        @@ ("City/Town" :> "BillingCity") @@ ("State" :> "BillingState")
        @@ ("ZIP Code" :> "BillingPostalCode") @@ ("Telephone Number" :> "Phone")
        @@ ("Provider Type" :> "Type") @@ ("Ownership Type" :> "Industry")

\* Lines 136-141: mapped_columns after the loop over df.columns.  The loop
\* assigns an entry for every column of the frame, the reserved ones included.
mapped_columns(columns) ==
    [col \in columns \cup DOMAIN ReservedMap |->
        IF col \in columns
        THEN IF col = CCNColumn THEN "CCN__c" ELSE col \o "__c"
        ELSE ReservedMap[col]]

\* Line 143: df.rename(columns=mapped_columns), on one row.
rename(row) ==
    LET m == mapped_columns(DOMAIN row)
    IN  [k \in {m[col] : col \in DOMAIN row} |->
            row[CHOOSE col \in DOMAIN row : m[col] = k]]

\* The frame with the filter of line 125 left out.
isin_filter_dropped(rows) == rows

\* Line 125: df[df['State'].isin([...])].
isin_filter(rows) == SelectSeq(rows, LAMBDA r : r["State"] \in Jurisdiction)

\* Line 144: df[:2].
HeadRows == 2
head(rows) == SubSeq(rows, 1, IF Len(rows) < HeadRows THEN Len(rows) ELSE HeadRows)

\* The frame main hands to add_accounts_from_dataframe (lines 124-144).
main_frame(upstream) ==
    LET kept == isin_filter(upstream)
    IN  head([i \in 1..Len(kept) |-> rename(kept[i])])

\* Line 110: os.getenv['CONSUMER_KEY'] subscripts the function object.
os_getenv_subscript == [raised |-> TRUE, exc |-> "TypeError"]

\* Line 71: the payload the loop builds for a row.
build_account_data(row) == EmptyDict

\* dict.get / Series.get with a default.
get(d, key, default) == IF key \in DOMAIN d THEN d[key] ELSE default

\* import_row without the try of line 69: an exception of add_account leaves
\* the function.
import_row_uncaught(accts, tenant, row, q, c) ==
    LET account_data == build_account_data(row)
        r == add_account(accts, tenant, account_data, q, c)
    IN  IF r.raised
        THEN [entry |-> [success |-> FALSE, error |-> r.exc,
                         name |-> get(row, "Provider Name", "Unknown")],
              accounts |-> r.accounts, calls |-> r.calls, escaped |-> TRUE]
        ELSE IF "id" \notin DOMAIN r.value
        THEN [entry |-> [success |-> FALSE, error |-> "'id'",
                         name |-> get(row, "Provider Name", "Unknown")],
              accounts |-> r.accounts, calls |-> r.calls, escaped |-> FALSE]
        ELSE [entry |-> [success |-> TRUE, id |-> r.value.id,
                         name |-> get(account_data, "Name", "Unknown")],
              accounts |-> r.accounts, calls |-> r.calls, escaped |-> FALSE]

\* Lines 69-90: one row of the import.  Answers the entry appended to results,
\* the Account records afterwards, the data-plane calls made, and whether an
\* exception left the loop body (the except clause of line 81 catches every
\* Exception, and its own statements do not raise on a frame read by read_csv,
\* whose index is integer).
import_row(accts, tenant, row, q, c) ==
    LET account_data == build_account_data(row)
        r == add_account(accts, tenant, account_data, q, c)
    IN  IF r.raised
        THEN [entry |-> [success |-> FALSE, error |-> r.exc,
                         name |-> get(row, "Provider Name", "Unknown")],
              accounts |-> r.accounts, calls |-> r.calls, escaped |-> FALSE]
        ELSE IF "id" \notin DOMAIN r.value
        THEN [entry |-> [success |-> FALSE, error |-> "'id'",
                         name |-> get(row, "Provider Name", "Unknown")],
              accounts |-> r.accounts, calls |-> r.calls, escaped |-> FALSE]
        ELSE [entry |-> [success |-> TRUE, id |-> r.value.id,
                         name |-> get(account_data, "Name", "Unknown")],
              accounts |-> r.accounts, calls |-> r.calls, escaped |-> FALSE]

\* success_count as len(results): every entry is counted as created.
success_count_all(res) == Len(res)

\* Line 92: the number printed as 'Created n/N accounts'.
success_count(res) == Cardinality({i \in 1..Len(res) : get(res[i], "success", FALSE)})

\* Rows a direct caller may put in the frame: renamed upstream rows, a row
\* already carrying the Account field names, and an upstream row as published
\* (the 'Provider Name' column that lines 79 and 88 read).
FrameRows ==
    {rename(BurnsAL), rename(DesertAZ),
     [Name |-> "Burns Nursing Home", BillingState |-> "AZ", CCN__c |-> "015009"],
     VegasNV}

Frames == UNION {[1..n -> FrameRows] : n \in 0..MaxRows}

\* add_accounts_from_dataframe is entered with `frame` (lines 60-66).
enter_import(frame, who) ==
    /\ lpc' = "running"
    /\ df' = frame
    /\ li' = 0
    /\ lresults' = << >>
    /\ acalls' = << >>
    /\ lstart' = accounts
    /\ caller' = who

\* A caller invokes add_accounts_from_dataframe(sf, df).
add_accounts_from_dataframe_begin ==
    /\ lpc \in {"idle", "done"}
    /\ lruns < MaxLoads
    /\ \E frame \in Frames : enter_import(frame, "direct")
    /\ UNCHANGED <<fields, accounts, ret, prevRet, lruns, lprev, calledAccounts, mainpc, csv>>
    /\ UNCHANGED <<fieldVars, batchVars, script, exit_code>>

\* One iteration of the loop of lines 68-90.
add_accounts_from_dataframe_loop ==
    /\ lpc = "running"
    /\ li < Len(df)
    /\ \E q \in TransportOutcomes, c \in TransportOutcomes :
         LET r == import_row(accounts, fields, df[li + 1], q, c)
         IN  /\ AccountCreatePossible(fields, build_account_data(df[li + 1]), c)
             /\ accounts' = r.accounts
             /\ acalls' = acalls \o [k \in 1..Len(r.calls) |->
                                        r.calls[k] @@ ("row" :> li + 1)]
             /\ IF r.escaped
                THEN /\ lpc' = "raised"
                     /\ UNCHANGED <<lresults, li>>
                ELSE /\ lpc' = lpc
                     /\ lresults' = Append(lresults, r.entry)
                     /\ li' = li + 1
    /\ UNCHANGED <<fields, ret, prevRet, df, lruns, lprev, lstart, caller,
                   calledAccounts, mainpc, csv>>
    /\ UNCHANGED <<fieldVars, batchVars, script, exit_code>>

\* Lines 92-95: the count is printed and results returned.
add_accounts_from_dataframe_return ==
    /\ lpc = "running"
    /\ li = Len(df)
    /\ lpc' = "done"
    /\ lruns' = lruns + 1
    /\ lprev' = [df |-> df, results |-> lresults]
    /\ mainpc' = IF caller = "main" THEN "returned" ELSE mainpc
    /\ exit_code' = IF caller = "main" THEN 0 ELSE exit_code
    /\ UNCHANGED <<fields, accounts, ret, prevRet, acalls, df, li, lresults, lstart,
                   caller, calledAccounts, csv>>
    /\ UNCHANGED <<fieldVars, batchVars, script>>

\* new_accounts.main (lines 98-144): the configuration is read, the CSV is
\* fetched, filtered and renamed, and its first rows are imported.  Reading the
\* configuration raises, so main ends there.
main ==
    /\ mainpc = "idle"
    /\ lpc \in {"idle", "done"}
    /\ IF os_getenv_subscript.raised
       THEN /\ mainpc' = os_getenv_subscript.exc
            /\ exit_code' = 1
            /\ UNCHANGED <<acalls, lpc, df, li, lresults, lstart, caller>>
       ELSE /\ mainpc' = "importing"
            /\ enter_import(main_frame(csv), "main")
            /\ UNCHANGED exit_code
    /\ UNCHANGED <<fields, accounts, ret, prevRet, lruns, lprev, calledAccounts, csv>>
    /\ UNCHANGED <<fieldVars, batchVars, script>>

(***************************************************************************)
(* salesforce.py: create_accounts_batch                                    *)
(***************************************************************************)
\* connect_to_salesforce (lines 14-45) answers the client, or None when the
\* connection fails (the except of line 43).
ConnectOutcomes == {"ok", "fails"}

\* Frames a caller hands to create_accounts_batch: rows with a Name, and a frame
\* without the Name column.
BatchRows == {[Name |-> n] : n \in PayloadNames}

BatchFrames ==
    UNION {[1..n -> BatchRows] : n \in 0..MaxRows} \cup {<< [CCN__c |-> "015009"] >>}

\* Lines 58-63: "SELECT Id, Name FROM Account WHERE Name IN (...)" over the Name
\* column of the frame.  Answers the matching records by Id, or raises.
batch_query(accts, frame, q) ==
    LET account_names == {frame[i].Name : i \in 1..Len(frame)}
        byId == [i \in 1..Cardinality(accts) |-> CHOOSE a \in accts : a.Id = i]
    IN  IF q = "raises"
        THEN [raised |-> TRUE, records |-> << >>]
        ELSE [raised |-> FALSE,
              records |-> SelectSeq(byId, LAMBDA a : a.Name \in account_names)]

\* Line 66: existing_names, built once before the loop.
existing_names == {existing[i].Name : i \in 1..Len(existing)}

\* Lines 56-69: the connection, the Name column and the query.  A failed
\* connection (sf is None), a frame without Name and a raising query all end in
\* the except clauses of lines 99-104, which return None.
create_accounts_batch_begin ==
    /\ bpc \in {"idle", "returned", "returned_None"}
    /\ bruns < MaxBatches
    /\ \E frame \in BatchFrames, conn \in ConnectOutcomes, q \in TransportOutcomes :
         /\ batch' = frame
         /\ IF conn = "fails" \/ (\E i \in 1..Len(frame) : "Name" \notin DOMAIN frame[i])
            THEN /\ bpc' = "returned_None"
                 /\ existing' = << >>
                 /\ bruns' = bruns + 1
            ELSE LET r == batch_query(accounts, frame, q)
                 IN  /\ bpc' = IF r.raised THEN "returned_None" ELSE "creating"
                     /\ existing' = r.records
                     /\ bruns' = IF r.raised THEN bruns + 1 ELSE bruns
    /\ bi' = 0
    /\ bresults' = << >>
    /\ bstart' = accounts
    /\ UNCHANGED <<fields, accounts, script, exit_code>>
    /\ UNCHANGED <<fieldVars, accountVars>>

\* One iteration of the loop of lines 70-87: a row whose Name the query found
\* is passed over; otherwise the Account is created, and a create that raises
\* ends the call in the except clauses of lines 99-104, which return None.
create_accounts_batch_loop ==
    /\ bpc = "creating"
    /\ bi < Len(batch)
    /\ LET name == batch[bi + 1].Name
       IN  IF name \in existing_names
           THEN /\ bi' = bi + 1
                /\ UNCHANGED <<accounts, bresults, bpc, bruns>>
           ELSE \E c \in TransportOutcomes :
                  IF c = "raises"
                  THEN /\ bpc' = "returned_None"
                       /\ bruns' = bruns + 1
                       /\ UNCHANGED <<accounts, bresults, bi>>
                  ELSE /\ accounts' = accounts \cup {[Id |-> NewId(accounts), Name |-> name]}
                       /\ bresults' = Append(bresults, [Id |-> NewId(accounts), Name |-> name,
                                                        created |-> TRUE])
                       /\ bi' = bi + 1
                       /\ UNCHANGED <<bpc, bruns>>
    /\ UNCHANGED <<fields, batch, existing, bstart, script, exit_code>>
    /\ UNCHANGED <<fieldVars, accountVars>>

\* Lines 89-98: the records the query found are appended with created False and
\* the list is returned.
create_accounts_batch_return ==
    /\ bpc = "creating"
    /\ bi = Len(batch)
    /\ bpc' = "returned"
    /\ bruns' = bruns + 1
    /\ bresults' = bresults \o [i \in 1..Len(existing) |->
                                  [Id |-> existing[i].Id, Name |-> existing[i].Name,
                                   created |-> FALSE]]
    /\ UNCHANGED <<fields, accounts, batch, bi, existing, bstart, script, exit_code>>
    /\ UNCHANGED <<fieldVars, accountVars>>

(***************************************************************************)
(* Specification of the schema provisioner                                 *)
(***************************************************************************)
NoRet == [kind |-> "none"]

FieldsIdle ==
    /\ ppc = "idle" /\ idx = 0 /\ results = EmptyResults /\ calls = << >>
    /\ runs = 0 /\ startFields = fields
    /\ carry = {}

DataIdle ==
    /\ ret = NoRet /\ prevRet = NoRet
    /\ acalls = << >>
    /\ lpc = "idle" /\ df = << >> /\ li = 0 /\ lresults = << >>
    /\ lruns = 0 /\ lprev = [df |-> << >>, results |-> << >>]
    /\ lstart = accounts /\ caller = "none" /\ calledAccounts = 0
    /\ mainpc = "idle"
    /\ exit_code = NoExit
    /\ bpc = "idle" /\ batch = << >> /\ bi = 0 /\ bresults = << >>
    /\ existing = << >> /\ bstart = accounts /\ bruns = 0

\* The provisioner meets a tenant holding any part of the configured fields.
Init ==
    /\ fields \in SUBSET FieldNames
    /\ accounts = {}
    /\ FieldsIdle
    /\ DataIdle
    /\ csv = << >>
    /\ script = "new_fields"
    /\ todo = fields_to_create

Next ==
    \/ create_healthcare_fields_begin
    \/ create_healthcare_fields_loop
    \/ create_healthcare_fields_return

Spec == Init /\ [][Next]_vars

\* The loop of lines 540-572 is sequential code whose calls answer or raise and
\* whose sleep ends: a started run keeps taking its steps.
SpecLive ==
    /\ Init
    /\ [][Next]_vars
    /\ WF_vars(create_healthcare_fields_loop)
    /\ WF_vars(create_healthcare_fields_return)

\* Runs of the provisioner that may be interrupted and followed by a new run.
NextInterrupt ==
    \/ create_healthcare_fields_begin
    \/ create_healthcare_fields_loop
    \/ create_healthcare_fields_return
    \/ create_healthcare_fields_interrupt

SpecInterrupt == Init /\ [][NextInterrupt]_vars

\* Type tags that no branch of lines 543-555 handles: "foo", and "geolocation",
\* which has a create method (lines 291-336) but no branch.
UnknownTags == {"foo", "geolocation"}

\* The field list of lines 363-535 with the tag of one entry replaced.
FieldLists ==
    {[fields_to_create EXCEPT ![i] = <<t, fields_to_create[i][2]>>] :
        i \in 1..Len(fields_to_create), t \in UnknownTags}

\* create_healthcare_fields run over a list that holds an undispatched tag.
InitUnknown ==
    /\ fields \in SUBSET FieldNames
    /\ accounts = {}
    /\ FieldsIdle
    /\ DataIdle
    /\ csv = << >>
    /\ script = "new_fields"
    /\ todo \in FieldLists

SpecUnknown == InitUnknown /\ [][Next]_vars

(***************************************************************************)
(* Specifications of the data plane: direct add_account calls, and the     *)
(* import of a frame (by a direct caller or by main)                       *)
(***************************************************************************)
\* Tenants the scripts may meet: not provisioned yet and without Accounts, or
\* provisioned and holding no Account or one.
InitTenant ==
    \/ fields = {} /\ accounts = {}
    \/ /\ fields = {AllFields[i][2] : i \in 1..Len(AllFields)}
       /\ accounts \in {{}, {[Id |-> 1, Name |-> "Burns Nursing Home",
                                CCN__c |-> "015009"]}}

InitAccounts ==
    /\ InitTenant
    /\ FieldsIdle
    /\ DataIdle
    /\ csv = << >>
    /\ script = "new_accounts"
    /\ todo = fields_to_create

NextAccounts == add_account_call

SpecAccounts == InitAccounts /\ [][NextAccounts]_vars

InitImport ==
    /\ InitTenant
    /\ FieldsIdle
    /\ DataIdle
    /\ csv \in CsvFiles
    /\ script = "new_accounts"
    /\ todo = fields_to_create

NextImport ==
    \/ main
    \/ add_accounts_from_dataframe_begin
    \/ add_accounts_from_dataframe_loop
    \/ add_accounts_from_dataframe_return

SpecImport == InitImport /\ [][NextImport]_vars

\* Columns of the upstream CSV (line 124): the eight reserved ones, the
\* certification number and five further ones, the last 49 characters long.
UpstreamColumns ==
    {"Provider Name", "Provider Address", "City/Town", "State", "ZIP Code",
     "Telephone Number", "Provider Type", "Ownership Type",
     CCNColumn, "County/Parish", "Legal Business Name", "Latitude",
     "Number of Certified Beds",
     "Rating Cycle 1 Total Number of Health Deficiencies"}

\* One-row upstream files over any columns that include State, which the
\* filter of line 125 reads.
UpstreamFiles ==
    {<< [col \in cols \cup {"State"} |-> IF col = "State" THEN "AZ" ELSE "x"] >> :
        cols \in SUBSET UpstreamColumns}

\* Lines 124-143 of main taken on their own: the CSV is read, filtered and its
\* columns renamed.
main_rename ==
    /\ mainpc = "idle"
    /\ mainpc' = "renamed"
    /\ df' = main_frame(csv)
    /\ UNCHANGED <<fields, accounts, ret, prevRet, acalls, lpc, li, lresults, lruns,
                   lprev, lstart, caller, calledAccounts, csv>>
    /\ UNCHANGED <<fieldVars, batchVars, script, exit_code>>

InitRename ==
    /\ InitTenant
    /\ FieldsIdle
    /\ DataIdle
    /\ csv \in UpstreamFiles
    /\ script = "new_accounts"
    /\ todo = fields_to_create

NextRename == main_rename

SpecRename == InitRename /\ [][NextRename]_vars

\* Calls of create_accounts_batch on a tenant holding no Account or one.
NextBatch ==
    \/ create_accounts_batch_begin
    \/ create_accounts_batch_loop
    \/ create_accounts_batch_return

SpecBatch == InitAccounts /\ [][NextBatch]_vars

\* Either script is run: new_fields.py against a tenant holding any part of the
\* configured fields, or new_accounts.py (its loader and its main).
InitScripts == Init \/ InitImport

NextScripts ==
    \/ script = "new_fields" /\ Next
    \/ script = "new_fields" /\ new_fields_main_return
    \/ script = "new_fields" /\ new_fields_main_error
    \/ script = "new_accounts" /\ NextImport

SpecScripts == InitScripts /\ [][NextScripts]_vars

(***************************************************************************)
(* Properties of the schema provisioner                                    *)
(***************************************************************************)
ToSet(seq) == {seq[i] : i \in 1..Len(seq)}

Occurrences(seq, x) == Cardinality({i \in 1..Len(seq) : seq[i] = x})

FailedNames == [i \in 1..Len(results.failed) |-> results.failed[i].field]

Reported == results.created \o results.skipped \o FailedNames

DeclaredNames == [i \in 1..Len(todo) |-> todo[i][2]]

DescribeRaised == \E i \in 1..Len(calls) : calls[i].op = "describe" /\ calls[i].out = "raises"

CallsOf(op, f) == {i \in 1..Len(calls) : calls[i].op = op /\ calls[i].field = f}

\* C1: when create_healthcare_fields returns, created, skipped and failed (by
\* its 'field' entries) are pairwise disjoint and together hold every configured
\* field name exactly once, whatever describe and create_metadata answered.
C1_OutcomePartition ==
    ppc = "done" =>
        /\ ToSet(Reported) = FieldNames
        /\ Len(Reported) = total_fields
        /\ \A f \in FieldNames : Occurrences(Reported, f) = 1
        /\ ToSet(results.created) \cap ToSet(results.skipped) = {}
        /\ ToSet(results.created) \cap ToSet(FailedNames) = {}
        /\ ToSet(results.skipped) \cap ToSet(FailedNames) = {}

\* C1 witness: a finished run in which all three lists are used.
C1_Witness ==
    /\ ppc = "done"
    /\ results.created # << >>
    /\ results.skipped # << >>
    /\ results.failed # << >>

C6_ExistingFieldSkipped ==
    /\ \A i \in 1..Len(calls) :
         (calls[i].op = "describe" /\ calls[i].out = "present") =>
             /\ CallsOf("create_metadata", calls[i].field) = {}
             /\ Occurrences(results.skipped, calls[i].field) = 1
             /\ calls[i].field \notin ToSet(results.created) \cup ToSet(FailedNames)
    /\ \A f \in fields, c \in CreateOutcomes :
         \A r \in {create_text_field(fields, f, "ok", c),
                    create_number_field(fields, f, "ok", c),
                    create_checkbox_field(fields, f, "ok", c),
                    create_date_field(fields, f, "ok", c),
                    create_picklist_field(fields, f, "ok", c),
                    create_currency_field(fields, f, "ok", c),
                    create_geolocation_field(fields, f, "ok", c)} :
             /\ ~r.raised
             /\ r.result = [success |-> FALSE, message |-> "Field already exists"]
             /\ \A k \in 1..Len(r.calls) : r.calls[k].op # "create_metadata"
             /\ r.tenant = fields

\* C6 witness: describe has listed a field during a run.
C6_Witness ==
    \E i \in 1..Len(calls) : calls[i].op = "describe" /\ calls[i].out = "present"

\* C9: when describe raises, the field is treated as absent: the very next call
\* is create_metadata for that field, and the field is not reported as skipped.
C9_DescribeFailureMeansAbsent ==
    \A i \in 1..Len(calls) :
        (calls[i].op = "describe" /\ calls[i].out = "raises") =>
            /\ ~check_field_exists(fields, calls[i].field, "raises")
            /\ i < Len(calls)
            /\ calls[i + 1].op = "create_metadata"
            /\ calls[i + 1].field = calls[i].field
            /\ calls[i].field \notin ToSet(results.skipped)

\* C9 witness: describe raised for a field that is on the tenant.
C9_Witness ==
    \E i \in 1..Len(calls) :
        calls[i].op = "describe" /\ calls[i].out = "raises" /\ calls[i].field \in fields

\* The fields of the list the current run has processed so far that were on the
\* tenant when it reached them (names are distinct, so a field is on the tenant
\* when reached iff it was there when the run began).
ProcessedExisting == {todo[i][2] : i \in {k \in 1..idx : todo[k][2] \in startFields}}

DescribeRaisedFor(f) == \E i \in CallsOf("describe", f) : calls[i].out = "raises"

UnknownProcessed == {i \in 1..idx : todo[i][1] \notin DispatchedTypes}

\* C12: an entry whose type tag is not dispatched is recorded in failed, once,
\* with the reason 'Unknown field type' and in no other list; no describe and no
\* create_metadata call is made for it; the loop goes on, so a returned run has
\* processed every entry of the list, the later ones with their describe call.
C12_UnknownTypeFails ==
    /\ \A i \in UnknownProcessed :
         /\ Occurrences(FailedNames, todo[i][2]) = 1
         /\ [field |-> todo[i][2], error |-> "Unknown field type"] \in ToSet(results.failed)
         /\ todo[i][2] \notin ToSet(results.created) \cup ToSet(results.skipped)
         /\ CallsOf("describe", todo[i][2]) = {}
         /\ CallsOf("create_metadata", todo[i][2]) = {}
    /\ \A i \in 1..Len(todo) :
         todo[i][1] \notin DispatchedTypes =>
             LET r == dispatch(fields, todo[i][1], todo[i][2], "ok", "success")
             IN  ~r.raised /\ r.calls = << >> /\ r.tenant = fields
    /\ ppc = "done" =>
         /\ idx = Len(todo)
         /\ Len(Reported) = Len(todo)
         /\ \A i \in 1..Len(todo) :
              todo[i][1] \in DispatchedTypes => CallsOf("describe", todo[i][2]) # {}

\* C12 witness: a returned run whose list had an undispatched tag before its
\* last entry, and a later entry was created.
C12_Witness ==
    /\ ppc = "done"
    /\ \E i \in UnknownProcessed :
         \E j \in (i + 1)..Len(todo) : todo[j][2] \in ToSet(results.created)

\* The per-field states, read from the calls log and the three lists: CHECKING is
\* the describe entry, CREATING the create_metadata entry, SKIPPED, CREATED and
\* FAILED the membership in skipped, created and failed.
Prefix(a, b) == Len(a) <= Len(b) /\ a = SubSeq(b, 1, Len(a))

FieldTransitions ==
    /\ \A i \in 1..Len(calls) :
         calls[i].op = "create_metadata" =>
             /\ i > 1
             /\ calls[i - 1].op = "describe"
             /\ calls[i - 1].field = calls[i].field
             /\ calls[i - 1].out \in {"absent", "raises"}
    /\ \A f \in FieldNames :
         /\ Cardinality(CallsOf("describe", f)) <= 1
         /\ Cardinality(CallsOf("create_metadata", f)) <= 1
         /\ Occurrences(Reported, f) <= 1
         /\ f \in ToSet(Reported) => CallsOf("describe", f) # {}
         /\ f \in ToSet(results.skipped) =>
                /\ \A i \in CallsOf("describe", f) : calls[i].out = "present"
                /\ CallsOf("create_metadata", f) = {}
         /\ f \in ToSet(results.created) =>
                \E i \in CallsOf("create_metadata", f) : calls[i].out = "success"
         /\ f \in ToSet(FailedNames) =>
                \E i \in CallsOf("create_metadata", f) : calls[i].out # "success"

TerminalStays ==
    (ppc = "running" /\ ppc' \in {"running", "done"}) =>
        /\ Prefix(results.created, results'.created)
        /\ Prefix(results.skipped, results'.skipped)
        /\ Prefix(results.failed, results'.failed)

AllTerminal == \A f \in FieldNames : Occurrences(Reported, f) = 1

\* C13: every field follows PENDING -> CHECKING -> (EXISTS -> SKIPPED) |
\* (ABSENT -> CREATING -> CREATED | FAILED): a create_metadata is submitted only
\* right after the describe of the same field found it absent, a field is in a
\* terminal list only after its describe, in at most one list and it stays
\* there; every field of a started run eventually is in exactly one terminal
\* list, and the run returns once all fields are.
C13_FieldStateMachine ==
    /\ []FieldTransitions
    /\ [][TerminalStays]_vars
    /\ (ppc = "running") ~> (ppc = "running" /\ AllTerminal)
    /\ (ppc = "running" /\ AllTerminal) ~> (ppc = "done" /\ AllTerminal)

\* C13 witness: a returned run in which one field went CHECKING -> SKIPPED, one
\* CHECKING -> CREATING -> CREATED and one CHECKING -> CREATING -> FAILED.
C13_Witness ==
    /\ ppc = "done"
    /\ AllTerminal
    /\ \E i, j, k \in 1..Len(calls) :
         /\ calls[i].op = "describe" /\ calls[i].out = "present"
         /\ calls[j].op = "create_metadata" /\ calls[j].out = "success"
         /\ calls[k].op = "create_metadata" /\ calls[k].out \notin {"success"}

Sleeps == {i \in 1..Len(calls) : calls[i].op = "sleep"}

Submissions == {i \in 1..Len(calls) : calls[i].op = "create_metadata"}

\* C14: in every run, between any two create_metadata submissions there is a
\* pacing sleep; one sleep follows every field but the last, and once the last
\* field of the list has been processed no sleep has followed it.
C14_PacingBetweenCreates ==
    /\ \A i, j \in Submissions :
         i < j => \E k \in Sleeps : i < k /\ k < j
    /\ ppc \in {"running", "done"} =>
         /\ \A n \in 1..idx :
              Cardinality(CallsOf("sleep", todo[n][2])) = IF n < Len(todo) THEN 1 ELSE 0
         /\ (idx = Len(todo) /\ calls # << >>) => calls[Len(calls)].op # "sleep"

\* C14 witness: a returned run that submitted the first and the last field of
\* the list to create_metadata.
C14_Witness ==
    /\ ppc = "done"
    /\ CallsOf("create_metadata", todo[1][2]) # {}
    /\ CallsOf("create_metadata", todo[Len(todo)][2]) # {}
    /\ Cardinality(Sleeps) = Len(todo) - 1

C27_OneSubmissionPerField ==
    /\ \A f \in FieldNames : Cardinality(CallsOf("create_metadata", f)) <= 1
    /\ \A n \in 1..Len(results.created) :
         \E i \in CallsOf("create_metadata", results.created[n]) :
             calls[i].out = "success"
    /\ \A i \in Submissions :
         calls[i].out # "success" => calls[i].field \notin ToSet(results.created)

\* C27 witness: a returned run in which one create_metadata answered success
\* and another one failed, each submitted once.
C27_Witness ==
    /\ ppc = "done"
    /\ \E i, j \in Submissions :
         /\ calls[i].out = "success"
         /\ calls[j].out \in {"failure", "raises"}
         /\ Cardinality(CallsOf("create_metadata", calls[j].field)) = 1

\* C10: a create_metadata that raises or answers a failure (an empty response
\* and an empty error list included) puts the field in failed with a reason, no
\* exception leaves create_healthcare_fields, and the run still checks every
\* field of the list and submits each one not reported present.
C10_CreateFailureIsCollected ==
    /\ ppc # "raised"
    /\ \A i \in 1..Len(calls) :
         (calls[i].op = "create_metadata" /\ calls[i].out # "success") =>
             \E j \in 1..Len(results.failed) :
                 /\ results.failed[j].field = calls[i].field
                 /\ results.failed[j].error \in
                        {"exception", "No response", "list index out of range",
                         "Unknown error", "DUPLICATE_OR_INVALID"}
    /\ ppc = "done" =>
         \A f \in FieldNames :
             /\ Cardinality(CallsOf("describe", f)) = 1
             /\ \A i \in CallsOf("describe", f) :
                    calls[i].out # "present" => CallsOf("create_metadata", f) # {}

\* C10 witness: the first field's create failed on an empty error list, a later
\* field was created, and the run returned.
C10_Witness ==
    /\ ppc = "done"
    /\ \E i \in 1..Len(calls) :
         /\ calls[i].op = "create_metadata" /\ calls[i].out = "empty_errors"
         /\ calls[i].field = fields_to_create[1][2]
    /\ \E i \in 1..Len(calls) :
         /\ calls[i].op = "create_metadata" /\ calls[i].out = "raises"
    /\ results.created # << >>

(***************************************************************************)
(* Properties of the data plane                                            *)
(***************************************************************************)
FullPayload(p) == "Name" \in DOMAIN p /\ "CCN__c" \in DOMAIN p

Duplicate(id) == [success |-> FALSE, message |-> "Duplicate", id |-> id]

Created(id) == [success |-> TRUE, id |-> id, created |-> TRUE]

\* C3: when add_accounts_from_dataframe is run twice on the same rows, the
\* second run reports every row as a duplicate (no entry is an error, nothing
\* is created) and creates no Account.
C3_SecondImportAllDuplicates ==
    (lpc = "done" /\ lruns >= 2 /\ df = lprev.df /\ Len(df) > 0) =>
        /\ \A i \in 1..Len(lresults) : "error" \notin DOMAIN lresults[i]
        /\ Len(lresults) = Len(df)
        /\ accounts = lstart

\* C4: no two Account records carry the same CCN__c, after any sequence of
\* add_account calls with any payloads and any query or create failures.
C4_UniqueCCN ==
    \A a \in accounts, b \in accounts : a.CCN__c = b.CCN__c => a = b

\* C4 witness: add_account has been called twice in a row with the same
\* complete payload on a provisioned tenant, the transport failing neither call.
C4_Witness ==
    /\ ret.kind = "returned" /\ prevRet.kind = "returned"
    /\ FullPayload(ret.payload) /\ ret.payload = prevRet.payload
    /\ ret.q = "ok" /\ ret.c = "ok" /\ prevRet.q = "ok" /\ prevRet.c = "ok"
    /\ "CCN__c" \in fields

\* The rows of the upstream CSV outside the jurisdiction set.
OutsideRows == {i \in 1..Len(csv) : csv[i]["State"] \notin Jurisdiction}

\* C5: for a row of the upstream CSV whose State is outside {AZ, NV, UT, CO},
\* the loader started by main issues no existence query and no Account create:
\* the frame main derives from the CSV (lines 125-144) holds no such row, the
\* frame being imported for main holds none, and no data-plane call made
\* under main carries the row's certification number.
C5_OutsideJurisdictionUntouched ==
    /\ \A i \in 1..Len(main_frame(csv)) :
           get(main_frame(csv)[i], "State__c", "none") \in Jurisdiction
    /\ caller = "main" =>
           /\ \A i \in 1..Len(df) : get(df[i], "State__c", "none") \in Jurisdiction
           /\ \A i \in OutsideRows, k \in 1..Len(acalls) :
                  acalls[k].value # csv[i][CCNColumn]
    /\ mainpc \notin {"idle", "importing", "returned"} => caller # "main"

\* C5 witness: main has run on a file holding a row outside the jurisdiction.
C5_Witness ==
    /\ mainpc # "idle"
    /\ OutsideRows # {}

\* C17: in add_accounts_from_dataframe a failing row never stops the loop: no
\* exception leaves the function, every row after a failed one gets its entry,
\* and the returned list has exactly one entry per row of the frame.
C17_RowsIndependent ==
    /\ lpc # "raised"
    /\ lpc = "running" => Len(lresults) = li /\ li <= Len(df)
    /\ lpc = "done" =>
         /\ Len(lresults) = Len(df)
         /\ \A i \in 1..Len(df) : \A j \in (i + 1)..Len(df) :
              ~lresults[i].success => "success" \in DOMAIN lresults[j]

\* C17 witness: a returned import whose first row failed and whose second row
\* was processed after it.
C17_Witness ==
    /\ lpc = "done"
    /\ Len(df) >= 2
    /\ ~lresults[1].success
    /\ Len(lresults) = Len(df)

\* The data-plane calls of the current import made for row i that created an
\* Account.
CreatedForRow(i) ==
    {k \in 1..Len(acalls) : acalls[k].row = i /\ acalls[k].op = "create"
                                /\ acalls[k].out = "ok"}

LastCalls(op) == {k \in 1..Len(acalls) : acalls[k].op = op}

\* The last add_account neither created an Account nor found a duplicate.
LastFailed ==
    ~(ret.kind = "returned" /\ (ret.value.success \/ "message" \in DOMAIN ret.value))

ErrorResult(v) == ~v.success /\ "error" \in DOMAIN v /\ v.error # ""

NoRetries ==
    /\ Cardinality(LastCalls("query")) <= 1
    /\ Cardinality(LastCalls("create")) <= 1
    /\ \A i \in LastCalls("create") : \A j \in LastCalls("query") : j < i

\* C19 as stated: add_account issues at most one existence query and at most
\* one create for a payload, whatever errors occur, and a failure is returned as
\* an error result with its reason.
C19_NoRetryFailureReturned ==
    ret.kind # "none" =>
        /\ NoRetries
        /\ LastFailed => ret.kind = "returned" /\ ErrorResult(ret.value)

\* C19 amended: at most one query and one create, whatever errors occur; a
\* failure of the query or of the create is returned as an error result with
\* its reason, and a payload without Name or CCN__c raises KeyError to the
\* caller before any call is made.
C19_NoRetryCallFailureReturned ==
    ret.kind # "none" =>
        /\ NoRetries
        /\ (FullPayload(ret.payload) /\ LastFailed) =>
               /\ ret.kind = "returned"
               /\ ErrorResult(ret.value)
               /\ accounts = ret.before
        /\ ~FullPayload(ret.payload) =>
               /\ ret.kind = "raised"
               /\ ret.exc \in {"'Name'", "'CCN__c'"}
               /\ acalls = << >>
               /\ accounts = ret.before

\* C19 witness: add_account was called with a complete payload, its query
\* failed, and the call before it had raised KeyError on an incomplete payload.
C19_Witness ==
    /\ ret.kind = "returned"
    /\ FullPayload(ret.payload)
    /\ LastFailed
    /\ Cardinality(LastCalls("query")) = 1
    /\ prevRet.kind = "raised"

C8_CreatedThenDuplicate ==
    (/\ prevRet.kind # "none" /\ ret.kind # "none"
     /\ FullPayload(ret.payload) /\ ret.payload = prevRet.payload
     /\ prevRet.q = "ok" /\ prevRet.c = "ok" /\ ret.q = "ok"
     /\ "CCN__c" \in fields
     /\ \A a \in prevRet.before : a.CCN__c # ret.payload["CCN__c"]) =>
        /\ prevRet.value = Created(NewId(prevRet.before))
        /\ Cardinality(ret.before) = Cardinality(prevRet.before) + 1
        /\ ret.value = Duplicate(NewId(prevRet.before))
        /\ accounts = ret.before

\* C24: the existence query of add_account filters on the field under which
\* the payload stores the business key: each query names CCN__c, carries the
\* payload's CCN__c as its value, and answers at most one Account record.
C24_QueryNamesBusinessKey ==
    ret.kind # "none" =>
        \A k \in LastCalls("query") :
            /\ acalls[k].field = "CCN__c"
            /\ acalls[k].value = ret.payload["CCN__c"]
            /\ \A q \in TransportOutcomes :
                   Len(query(ret.before, fields, acalls[k].field, acalls[k].value, q).records) <= 1

\* C26: when the existence query of add_account raises, add_account returns an
\* error result, issues no create and leaves the Accounts unchanged; a create is
\* issued, and an Account added, only after a query that answered zero records.
C26_QueryFailureIsNotAbsent ==
    (ret.kind # "none" /\ FullPayload(ret.payload)) =>
        /\ (\E k \in LastCalls("query") : acalls[k].out = "raises") =>
               /\ ret.kind = "returned"
               /\ ErrorResult(ret.value)
               /\ LastCalls("create") = {}
               /\ accounts = ret.before
        /\ \A i \in LastCalls("create") :
               \E j \in LastCalls("query") : j < i /\ acalls[j].out = "empty"
        /\ accounts # ret.before =>
               \E j \in LastCalls("query") : acalls[j].out = "empty"

\* C26 witness: the query raised for a complete payload on a provisioned tenant
\* whose create would have succeeded.
C26_Witness ==
    /\ ret.kind = "returned"
    /\ FullPayload(ret.payload)
    /\ "CCN__c" \in fields
    /\ ret.c = "ok"
    /\ \E k \in LastCalls("query") : acalls[k].out = "raises"

(***************************************************************************)
(* Properties of both scripts                                              *)
(***************************************************************************)
\* The position of a field name in the list the run walks.
Pos(f) == CHOOSE i \in 1..Len(todo) : todo[i][2] = f

Ascending(names) ==
    \A i, j \in 1..Len(names) : i < j => Pos(names[i]) < Pos(names[j])

\* C15: create_healthcare_fields issues its describe and create_metadata calls
\* in the declaration order of the field list and each of created, skipped and
\* failed is in declaration order; add_accounts_from_dataframe walks the frame
\* from its first row, one entry per row walked, and the entry at position i is
\* the outcome of row i (it carries that row's provider name).
C15_InputOrderPreserved ==
    /\ \A i, j \in 1..Len(calls) :
         i < j => Pos(calls[i].field) <= Pos(calls[j].field)
    /\ \A n \in 1..idx : \E i \in 1..Len(calls) : calls[i].field = todo[n][2]
    /\ \A i \in 1..Len(calls) : Pos(calls[i].field) <= idx
    /\ Ascending(results.created)
    /\ Ascending(results.skipped)
    /\ Ascending(FailedNames)
    /\ Len(lresults) = li
    /\ li <= Len(df)
    /\ \A i \in 1..Len(lresults) :
         lresults[i].name = (IF lresults[i].success
                             THEN get(build_account_data(df[i]), "Name", "Unknown")
                             ELSE get(df[i], "Provider Name", "Unknown"))
    /\ \A i, j \in 1..Len(acalls) : i < j => acalls[i].row <= acalls[j].row

\* A returned run of the provisioner with two fields in one of its lists.
OrderedFieldsCase ==
    /\ script = "new_fields"
    /\ ppc = "done"
    /\ Len(results.created) >= 2 \/ Len(results.skipped) >= 2

\* A returned import of a frame whose two rows have different outcomes.
OrderedRowsCase ==
    /\ script = "new_accounts"
    /\ lpc = "done"
    /\ Len(lresults) >= 2
    /\ lresults[1] # lresults[2]

\* C15 witness: either script has returned with two outcomes to order.
C15_Witness == OrderedFieldsCase \/ OrderedRowsCase

\* The summaries the scripts have produced hold no failed and no error entry.
NoFailures ==
    /\ results.failed = << >>
    /\ \A i \in 1..Len(lresults) : lresults[i].success

\* C20: when the process of a script has ended, its exit code is 0 if the
\* provisioning summary has no failed entry and the loader summary no error
\* entry, and 1 otherwise.
C20_ExitCodeReflectsFailures ==
    exit_code # NoExit =>
        /\ exit_code \in {0, 1}
        /\ exit_code = 0 <=> NoFailures

(***************************************************************************)
(* Properties of the column renaming                                       *)
(***************************************************************************)
\* The built-in Account fields the reserved columns stand for.
BuiltInFields == {ReservedMap[col] : col \in DOMAIN ReservedMap}

\* The names of the custom fields create_healthcare_fields provisions.
ProvisionedNames == {AllFields[i][2] : i \in 1..Len(AllFields)}

\* The name the renamed frame gives an upstream column of row i.
RenamedAs(i, col) == mapped_columns(DOMAIN csv[i])[col]

\* C21: after the renaming every reserved upstream column of the frame is
\* mapped to its built-in Account field, never to a name ending in __c, and no
\* reserved column and no built-in field is in the provisioner's list.
C21_ReservedColumnsMapToBuiltIns ==
    /\ mainpc = "renamed" =>
         \A i \in 1..Len(csv) : \A col \in DOMAIN csv[i] \cap DOMAIN ReservedMap :
             /\ RenamedAs(i, col) = ReservedMap[col]
             /\ \A r \in 1..Len(df) : (col \o "__c") \notin DOMAIN df[r]
    /\ \A col \in DOMAIN ReservedMap :
         {col, col \o "__c", ReservedMap[col], ReservedMap[col] \o "__c"}
             \cap ProvisionedNames = {}

\* The characters [A-Za-z0-9_].
IdentifierChars ==
    {"A", "B", "C", "D", "E", "F", "G", "H", "I", "J", "K", "L", "M",
     "N", "O", "P", "Q", "R", "S", "T", "U", "V", "W", "X", "Y", "Z",
     "a", "b", "c", "d", "e", "f", "g", "h", "i", "j", "k", "l", "m",
     "n", "o", "p", "q", "r", "s", "t", "u", "v", "w", "x", "y", "z",
     "0", "1", "2", "3", "4", "5", "6", "7", "8", "9", "_"}

\* name matches ^[A-Za-z0-9_]{1,40}__c$.
IsApiName(name) ==
    /\ Len(name) - 3 \in 1..40
    /\ SubSeq(name, Len(name) - 2, Len(name)) = "__c"
    /\ \A k \in 1..(Len(name) - 3) : SubSeq(name, k, k) \in IdentifierChars

\* C22: the API name the loader derives for an upstream column that is not a
\* reserved built-in is 1 to 40 characters of [A-Za-z0-9_] followed by __c.
C22_DerivedNameIsApiName ==
    mainpc = "renamed" =>
        \A i \in 1..Len(csv) : \A col \in DOMAIN csv[i] \ DOMAIN ReservedMap :
            IsApiName(RenamedAs(i, col))

\* C25: every column name of the renamed frame is a reserved built-in Account
\* field or the name of a custom field that create_healthcare_fields provisions.
C25_RenamedKeysWellFormed ==
    mainpc = "renamed" =>
        \A r \in 1..Len(df) : DOMAIN df[r] \subseteq BuiltInFields \cup ProvisionedNames

(***************************************************************************)
(* Properties of create_accounts_batch                                     *)
(***************************************************************************)
\* The Accounts the current call of create_accounts_batch has created.
BatchCreated == accounts \ bstart

\* The value the call returned: the results list, or None (no entry).
BatchReturned == IF bpc = "returned" THEN bresults ELSE << >>

\* C23: a call of create_accounts_batch has created no Account whose Name is
\* the Name of an Account that existed before the call, and no two Accounts of
\* the same Name, also when the frame holds a Name on several rows.
C23_BatchSkipsDuplicates ==
    bpc # "idle" =>
        /\ \A a \in BatchCreated : \A b \in bstart : a.Name # b.Name
        /\ \A a \in BatchCreated : \A b \in BatchCreated : a.Name = b.Name => a = b

\* C28: whenever create_accounts_batch returns, also after a create failed
\* part-way, the returned value holds exactly one entry with created = True for
\* each Account the call created.
C28_BatchReportsCreated ==
    bpc \in {"returned", "returned_None"} =>
        \A a \in BatchCreated :
            Cardinality({i \in 1..Len(BatchReturned) :
                            BatchReturned[i].Id = a.Id /\ BatchReturned[i].created}) = 1

====
